---- MODULE Spec2Model ----
(***************************************************************************)
(* dependabot-paused-report (src/main.py): a sequential client that lists  *)
(* organizations, lists each organization's repositories, asks for every   *)
(* repository whether Dependabot's automated security fixes are paused and *)
(* writes the paused ones to a JSON file.                                  *)
(*                                                                         *)
(* The process is one thread of control.  pc is the driver's position      *)
(* (module load, main, the two loops, the three callers of make_request),  *)
(* mr_pc is the position inside make_request.  The server is the           *)
(* environment: every physical request is answered by one of the Respond   *)
(* actions, chosen freely.                                                 *)
(***************************************************************************)
EXTENDS Integers, Sequences, FiniteSets, TLC

\* ------------------------------------------------------------------ bounds
MaxOrgs == 2      \* longest list of organizations given on the command line
MaxItems == 2     \* most items one logical query of a whole run aggregates
FetchItems == 3   \* the same for a query against the stub server
MaxPages == 3     \* most list pages the stub server serves for one query
MaxRetries == 2   \* most rate-limit answers the stub server gives one query
MaxClock == 4     \* latest time the server with a clock answers at
MaxReset == 3     \* latest X-RateLimit-Reset timestamp it sends
MaxLate == 1      \* longest a sleep overruns, with the time lines 58-60 take

OrgNames == {"org-a", "org-b"}
RepoNames == {"r1", "r2"}

\* The sequences over S of length at most n.
BSeq(S, n) == UNION {[1..k -> S] : k \in 0..n}

\* ------------------------------------------------------- values on the wire
\* The credential in the environment variable.
\* A token is a sequence of pieces; the empty sequence is the unset variable.
FineGrainedPrefix == <<"github_pat_">>
Tokens == {<<>>, <<"github_pat_">>, <<"github_pat_", "x">>, <<"ghp_", "x">>}

\* A decoded JSON body: a list of items (an item is named by its login or
\* name field) or an object, given by its keys and the value of "paused".
ListBody(items) == [type |-> "list", items |-> items, keys |-> {}, paused |-> FALSE]
DictBody(keys, paused) == [type |-> "dict", items |-> <<>>, keys |-> keys, paused |-> paused]

DictBodies ==
    {DictBody({}, FALSE), DictBody({"message"}, FALSE),
     DictBody({"paused"}, FALSE), DictBody({"paused"}, TRUE)}

\* URLs a Link header can name: one that carries a page number and one
\* (cursor style) that carries none.
LinkUrls == {"?page=2", "?after=c"}

\* re.match(r'.*page=(\d+)', url): the page number, 0 when there is no match.
PageOf(u) == IF u = "?page=2" THEN 2 ELSE 0

\* One comma separated entry of a Link header: <url>; rel="...".
LinkEntries == [rel : {"next", "last", "prev"}, url : LinkUrls]

\* The Link header of an answer: absent, or its entries in order.  The
\* headers served hold no entry, one entry, or two: a "next" or "prev"
\* entry followed by a "next" or "last" entry.
NoLink == [present |-> FALSE, links |-> <<>>]
Link(l) == [present |-> TRUE, links |-> l]
LinkPairs ==
    {<<a, b>> : a \in {e \in LinkEntries : e.rel # "last" /\ (e.rel = "prev" => e.url = "?page=2")},
                b \in {e \in LinkEntries : e.rel # "prev" /\ (e.rel = "next" => e.url = "?page=2")}}
LinkHeaders ==
    {NoLink} \cup {Link(l) : l \in BSeq(LinkEntries, 1)} \cup {Link(l) : l \in LinkPairs}

\* X-RateLimit-Remaining of a 403 answer: "absent" or its number.
RemainingHeaders == {"absent", "0", "1"}

\* X-RateLimit-Reset of a 403 answer: absent, or a timestamp.
NoReset == [present |-> FALSE, value |-> 0]
ResetHeaders == {NoReset} \cup {[present |-> TRUE, value |-> n] : n \in 0..MaxReset}

\* Statuses raise_for_status() raises for, other than 403 and 404.
FatalStatuses == {401, 500}

VARIABLES
    token,          \* os.getenv(TOKEN_ENV_VAR)
    args_orgs,      \* args.orgs
    pc,             \* position of the driver
    exit_status,    \* -1 while the process runs, then its exit status
    exit_cause,     \* why the process ended
    orgs,           \* main: orgs
    org_i,          \* main: position of `for org in orgs`
    repos,          \* main: repos
    repo_i,         \* main: position of `for repo in repos`
    paused_repos,   \* main: paused_repos, a mapping org -> sequence of repos
    before_cleanup, \* the mapping cleanup_results was last called with
    json_file,      \* the mapping written to the output file
    writes,         \* how many times write_to_json ran
    json_chunks,    \* -1 while this run has not opened the output file, then
                    \* the number of top-level entries json.dump wrote to it
    mr_pc,          \* position inside make_request
    url,            \* make_request: url ("" is the endpoint's own URL)
    all_results,    \* make_request: all_results
    last_page,      \* make_request: last_page, 0 while the local is unbound
    result,         \* the value make_request returned
    response,       \* the last answer: status and X-RateLimit-Remaining, and
                    \* for the stub server the decoded body and the Link header
    audit,          \* whether the server is the stub that records its answers
    retries,        \* stub server: rate-limit answers given to the current query
    pages,          \* stub server: list pages served to the current query
    clock,          \* time() for the server with a clock, -1 where time is
                    \* left out
    reset_time,     \* make_request: reset_time, 0 while the local is unbound
    sleep_time,     \* make_request: sleep_time, 0 while the local is unbound
    issued,         \* the endpoints a request was sent to in this run
    statuses,       \* the pause statuses found for repos[1..repo_i-1]
    scanned         \* per organization scanned to its end: its paused repos

vars == <<token, args_orgs, audit, pc, exit_status, exit_cause, orgs, org_i, repos,
          repo_i, paused_repos, before_cleanup, json_file, json_chunks, writes, json_chunks,
          mr_pc, url, all_results, last_page, result, response, retries, pages,
          clock, reset_time, sleep_time,
          issued, statuses, scanned>>

driver == <<orgs, org_i, repos, repo_i, paused_repos, before_cleanup,
            json_file, json_chunks, writes, statuses, scanned>>
inputs == <<token, args_orgs, audit>>

NoBody == [type |-> "none", items |-> <<>>, keys |-> {}, paused |-> FALSE]
NoResponse ==
    [status |-> 0, remaining |-> "absent", reset |-> NoReset,
     body |-> NoBody, link |-> NoLink]
EmptyMap == [o \in {} |-> <<>>]

\* ----------------------------------------------------------- pure functions
\* str.startswith
startswith(s, prefix) ==
    Len(s) >= Len(prefix) /\ SubSeq(s, 1, Len(prefix)) = prefix

\* (a variant that only tests whether the variable is set)
get_token_unchecked(t) == IF t = <<>> THEN "exit" ELSE "ok"

\* get_token: "exit" where it calls sys.exit(1), "ok" where it returns.
get_token(t) ==
    IF t = <<>> THEN "exit"
    ELSE IF startswith(t, FineGrainedPrefix) THEN "exit"
    ELSE "ok"

\* (a variant whose default leaves quota)
Remaining_default_one(h) == CASE h = "absent" -> 1 [] h = "0" -> 0 [] h = "1" -> 1

\* int(response.headers.get('X-RateLimit-Remaining', 0))
Remaining(h) == CASE h = "absent" -> 0 [] h = "0" -> 0 [] h = "1" -> 1

\* int(response.headers.get('X-RateLimit-Reset', 0))
ResetTime(rh) == IF rh.present THEN rh.value ELSE 0

max(a, b) == IF a >= b THEN a ELSE b

\* (a variant without the floor at zero)
SleepTime_unfloored(reset, now) == reset - now

\* sleep_time = max(reset_time - time(), 0); times are whole seconds here.
SleepTime(reset, now) == max(reset - now, 0)

\* The for loops over the Link header.  The first binds last_page from every
\* entry marked "last"; the second takes the URL of every entry marked "next"
\* and prints current_page/last_page.  A URL without a page number makes
\* re.match return None (AttributeError), an unbound last_page makes the
\* print raise UnboundLocalError: neither is a RequestException.
ParseLink(h, lp) ==
    LET lasts == SelectSeq(h.links, LAMBDA e : e.rel = "last")
        nexts == SelectSeq(h.links, LAMBDA e : e.rel = "next")
        badlast == \E i \in 1..Len(lasts) : PageOf(lasts[i].url) = 0
        lp2 == IF lasts = <<>> THEN lp ELSE PageOf(lasts[Len(lasts)].url)
        badnext == /\ nexts # <<>>
                   /\ \/ \E i \in 1..Len(nexts) : PageOf(nexts[i].url) = 0
                      \/ lp2 = 0
    IN  [raises |-> badlast \/ badnext,
         url |-> IF nexts = <<>> THEN "None" ELSE nexts[Len(nexts)].url,
         last_page |-> lp2]

\* all_results.extend(response.json())
extend_overwrite(all, items) == items
extend(all, items) == all \o items

\* dependabot_is_paused, applied to what make_request returned.
dependabot_is_paused(r) ==
    IF r.type = "dict" /\ "paused" \in r.keys THEN r.paused ELSE FALSE

\* [x['login'] for x in response] and [x['name'] for x in response]: the
\* names of a list's items; iterating an object yields its keys, strings,
\* and indexing a string by 'login' raises TypeError.
NamesRaise(r) == r.type = "dict" /\ r.keys # {}
NamesOf(r) == IF r.type = "dict" THEN <<>> ELSE r.items

\* (a variant that starts the organization's sequence afresh every time)
AddPaused_overwrite(p, org, repo) ==
    [o \in DOMAIN p \cup {org} |-> IF o = org THEN <<repo>> ELSE p[o]]

\* main, lines 144-146: append repo to the organization's sequence.
AddPaused(p, org, repo) ==
    IF org \in DOMAIN p
    THEN [p EXCEPT ![org] = Append(@, repo)]
    ELSE [o \in DOMAIN p \cup {org} |-> IF o = org THEN <<repo>> ELSE p[o]]

\* (a variant with the test inverted: it pops the keys that hold repos)
cleanup_results_inverted(p) ==
    IF DOMAIN p = {} THEN p
    ELSE [o \in {k \in DOMAIN p : p[k] = <<>>} |-> p[o]]

\* cleanup_results: pop every key whose sequence is empty.
cleanup_results(p) ==
    IF DOMAIN p = {} THEN p
    ELSE [o \in {k \in DOMAIN p : p[k] # <<>>} |-> p[o]]

\* The items of rs at the positions where st is TRUE, in order.
Filter(rs, st) ==
    LET idx == SelectSeq([i \in 1..Len(st) |-> i], LAMBDA i : st[i])
    IN  [k \in 1..Len(idx) |-> rs[idx[k]]]

\* ------------------------------------------------------------- the process
Running == exit_status = -1

\* The endpoint the running logical query addresses.
Endpoint ==
    CASE pc = "get_orgs" -> "/user/orgs"
      [] pc = "get_org_repos" -> "/orgs/{org}/repos"
      [] pc = "dependabot_is_paused" -> "/repos/{org}/{repo}/automated-security-fixes"
      [] OTHER -> "none"

\* The names the items of a list page carry at the running query's endpoint.
ItemNames ==
    CASE pc = "get_orgs" -> OrgNames
      [] pc = "get_org_repos" -> RepoNames
      [] OTHER -> {"item"}

\* Most items the server lets one logical query aggregate.
ItemBudget == IF audit THEN FetchItems ELSE MaxItems

\* sys.exit(status), or an exception nothing catches (status 1 as well).
Exit(status, cause) ==
    /\ pc' = "exit"
    /\ exit_status' = status
    /\ exit_cause' = cause

\* The process ends inside make_request: its locals are gone.
Abort(cause) ==
    /\ Exit(1, cause)
    /\ mr_pc' = "idle"
    /\ url' = "None"
    /\ all_results' = <<>>
    /\ last_page' = 0
    /\ UNCHANGED result
    /\ reset_time' = 0
    /\ sleep_time' = 0

\* make_request is entered: lines 41-48.
Call ==
    /\ mr_pc' = "get"
    /\ url' = ""
    /\ all_results' = <<>>
    /\ last_page' = 0
    /\ result' = ListBody(<<>>)
    /\ response' = NoResponse
    /\ retries' = 0
    /\ pages' = <<>>
    /\ reset_time' = 0
    /\ sleep_time' = 0

\* The caller has taken the returned value: the frame of make_request is gone.
Returned ==
    /\ mr_pc' = "idle"
    /\ url' = "None"
    /\ all_results' = <<>>
    /\ last_page' = 0
    /\ result' = ListBody(<<>>)
    /\ response' = NoResponse
    /\ retries' = 0
    /\ pages' = <<>>
    /\ reset_time' = 0
    /\ sleep_time' = 0

\* make_request returns v: its locals are gone, the caller holds v.
Return(v) ==
    /\ mr_pc' = "return"
    /\ result' = v
    /\ url' = "None"
    /\ all_results' = <<>>
    /\ last_page' = 0
    /\ reset_time' = 0
    /\ sleep_time' = 0

mr == <<mr_pc, url, all_results, last_page, result, response, retries, pages,
        reset_time, sleep_time>>

Init ==
    /\ token \in Tokens
    /\ audit = FALSE
    /\ args_orgs \in BSeq(OrgNames, MaxOrgs)
    /\ pc = "import"
    /\ exit_status = -1
    /\ exit_cause = "none"
    /\ orgs = <<>>
    /\ org_i = 0
    /\ repos = <<>>
    /\ repo_i = 0
    /\ paused_repos = EmptyMap
    /\ before_cleanup = EmptyMap
    /\ json_file = EmptyMap
    /\ writes = 0
    /\ json_chunks = -1
    /\ mr_pc = "idle"
    /\ url = "None"
    /\ all_results = <<>>
    /\ last_page = 0
    /\ result = ListBody(<<>>)
    /\ response = NoResponse
    /\ retries = 0
    /\ pages = <<>>
    /\ clock = -1
    /\ reset_time = 0
    /\ sleep_time = 0
    /\ issued = {}
    /\ statuses = <<>>
    /\ scanned = <<>>

\* Module load: the default argument token=get_token() of make_request is
\* evaluated when the def statement runs, before main.
Import ==
    /\ Running /\ pc = "import"
    /\ IF get_token(token) = "exit"
       THEN Exit(1, "token")
       ELSE pc' = "main" /\ UNCHANGED <<exit_status, exit_cause>>
    /\ UNCHANGED <<inputs, clock, driver, mr, issued>>

\* main, lines 132-138, with organizations on the command line.
MainWithOrgs ==
    /\ Running /\ pc = "main"
    /\ args_orgs # <<>>
    /\ orgs' = args_orgs
    /\ org_i' = 1
    /\ pc' = "for_org"
    /\ UNCHANGED <<inputs, clock, exit_status, exit_cause, repos, repo_i, paused_repos,
                   before_cleanup, json_file, json_chunks, writes, statuses, scanned, mr, issued>>

\* main, lines 132-137, without: get_orgs calls make_request('/user/orgs').
MainDiscover ==
    /\ Running /\ pc = "main"
    /\ args_orgs = <<>>
    /\ pc' = "get_orgs"
    /\ Call
    /\ UNCHANGED <<inputs, clock, exit_status, exit_cause, driver, issued>>

\* (a variant without the check for an empty list)
GetOrgsReturn_unchecked ==
    /\ Running /\ pc = "get_orgs" /\ mr_pc = "return"
    /\ Returned
    /\ IF NamesRaise(result)
       THEN Exit(1, "exception") /\ UNCHANGED <<orgs, org_i>>
       ELSE /\ orgs' = NamesOf(result)
            /\ org_i' = 1
            /\ pc' = "for_org"
            /\ UNCHANGED <<exit_status, exit_cause>>
    /\ UNCHANGED <<inputs, clock, repos, repo_i, paused_repos, before_cleanup,
                   json_file, json_chunks, writes, statuses, scanned, issued>>

\* get_orgs, lines 101-105, then main line 138.
GetOrgsReturn ==
    /\ Running /\ pc = "get_orgs" /\ mr_pc = "return"
    /\ Returned
    /\ IF NamesRaise(result)
       THEN Exit(1, "exception") /\ UNCHANGED <<orgs, org_i>>
       ELSE IF NamesOf(result) = <<>>
       THEN Exit(1, "no_orgs") /\ UNCHANGED <<orgs, org_i>>
       ELSE /\ orgs' = NamesOf(result)
            /\ org_i' = 1
            /\ pc' = "for_org"
            /\ UNCHANGED <<exit_status, exit_cause>>
    /\ UNCHANGED <<inputs, clock, repos, repo_i, paused_repos, before_cleanup,
                   json_file, json_chunks, writes, statuses, scanned, issued>>

\* main, lines 139-140: the next organization; get_org_repos calls
\* make_request.
NextOrg ==
    /\ Running /\ pc = "for_org"
    /\ org_i <= Len(orgs)
    /\ pc' = "get_org_repos"
    /\ Call
    /\ UNCHANGED <<inputs, clock, exit_status, exit_cause, driver, issued>>

\* get_org_repos, line 110, then main line 141.
GetOrgReposReturn ==
    /\ Running /\ pc = "get_org_repos" /\ mr_pc = "return"
    /\ Returned
    /\ IF NamesRaise(result)
       THEN Exit(1, "exception") /\ UNCHANGED <<repos, repo_i>>
       ELSE /\ repos' = NamesOf(result)
            /\ repo_i' = 1
            /\ pc' = "for_repo"
            /\ UNCHANGED <<exit_status, exit_cause>>
    /\ UNCHANGED <<inputs, clock, orgs, org_i, paused_repos, before_cleanup,
                   json_file, json_chunks, writes, statuses, scanned, issued>>

\* main, lines 142-143: the next repository; dependabot_is_paused calls
\* make_request.
NextRepo ==
    /\ Running /\ pc = "for_repo"
    /\ repo_i <= Len(repos)
    /\ pc' = "dependabot_is_paused"
    /\ Call
    /\ UNCHANGED <<inputs, clock, exit_status, exit_cause, driver, issued>>

\* main, lines 148-149: the organization's repositories are exhausted.
OrgDone ==
    /\ Running /\ pc = "for_repo"
    /\ repo_i > Len(repos)
    /\ org_i' = org_i + 1
    /\ pc' = "for_org"
    /\ scanned' = Append(scanned, [org |-> orgs[org_i],
                                   paused |-> Filter(repos, statuses)])
    /\ statuses' = <<>>
    /\ UNCHANGED <<inputs, clock, exit_status, exit_cause, orgs, repos, repo_i,
                   paused_repos, before_cleanup, json_file, json_chunks, writes, mr, issued>>

\* (a variant that creates the organization's key before the test)
IsPausedReturn_keyed ==
    /\ Running /\ pc = "dependabot_is_paused" /\ mr_pc = "return"
    /\ Returned
    /\ paused_repos' =
         LET org == orgs[org_i]
             keyed == IF org \in DOMAIN paused_repos THEN paused_repos
                      ELSE [o \in DOMAIN paused_repos \cup {org} |->
                               IF o = org THEN <<>> ELSE paused_repos[o]]
         IN  IF dependabot_is_paused(result)
             THEN AddPaused(keyed, org, repos[repo_i])
             ELSE keyed
    /\ statuses' = Append(statuses, dependabot_is_paused(result))
    /\ repo_i' = repo_i + 1
    /\ pc' = "for_repo"
    /\ UNCHANGED <<inputs, clock, exit_status, exit_cause, orgs, org_i, repos,
                   before_cleanup, json_file, json_chunks, writes, scanned, issued>>

\* dependabot_is_paused, lines 114-117, then main lines 143-147.
IsPausedReturn ==
    /\ Running /\ pc = "dependabot_is_paused" /\ mr_pc = "return"
    /\ Returned
    /\ paused_repos' = IF dependabot_is_paused(result)
                       THEN AddPaused(paused_repos, orgs[org_i], repos[repo_i])
                       ELSE paused_repos
    /\ statuses' = Append(statuses, dependabot_is_paused(result))
    /\ repo_i' = repo_i + 1
    /\ pc' = "for_repo"
    /\ UNCHANGED <<inputs, clock, exit_status, exit_cause, orgs, org_i, repos,
                   before_cleanup, json_file, json_chunks, writes, scanned, issued>>

\* (a variant that writes the file whether or not the mapping is empty)
Finish_always_writes ==
    /\ Running /\ pc = "for_org"
    /\ org_i > Len(orgs)
    /\ before_cleanup' = paused_repos
    /\ paused_repos' = cleanup_results(paused_repos)
    /\ json_file' = paused_repos' /\ writes' = writes + 1
    /\ json_chunks' = Cardinality(DOMAIN paused_repos')
    /\ Exit(0, "completed")
    /\ UNCHANGED <<inputs, clock, orgs, org_i, repos, repo_i, statuses, scanned, mr, issued>>

\* main, lines 150-152, and the return to line 156: cleanup_results, then
\* write_to_json when the mapping is not empty; the process ends normally.
Finish ==
    /\ Running /\ pc = "for_org"
    /\ org_i > Len(orgs)
    /\ before_cleanup' = paused_repos
    /\ paused_repos' = cleanup_results(paused_repos)
    /\ IF DOMAIN paused_repos' # {}
       THEN /\ json_file' = paused_repos' /\ writes' = writes + 1
            /\ json_chunks' = Cardinality(DOMAIN paused_repos')
       ELSE UNCHANGED <<json_file, json_chunks, writes>>
    /\ Exit(0, "completed")
    /\ UNCHANGED <<inputs, clock, orgs, org_i, repos, repo_i, statuses, scanned, mr, issued>>

\* ------------------------------------------- make_request and the server
\* requests.get(url, headers=headers) at line 51 or, after the sleep, at
\* line 62 is about to be answered.
Requesting == Running /\ mr_pc \in {"get", "sleep"}

\* requests.get has returned a response, and what every answer leaves
\* alone besides the frame of make_request and the clock.
Answer(status, h, reset, body, link) ==
    /\ response' = [status |-> status, remaining |-> h, reset |-> reset,
                    body |-> IF audit THEN body ELSE NoBody,
                    link |-> IF audit THEN link ELSE NoLink]
    /\ issued' = issued \cup {Endpoint}
    /\ UNCHANGED <<inputs, driver>>

\* An answer with a JSON body and a Link header.
AnsweredWith(status, h, body, link) ==
    /\ Answer(status, h, NoReset, body, link)
    /\ UNCHANGED clock

\* Lines 56-61: the sleep after an answer with X-RateLimit-Reset rh.  The
\* request at line 62 is issued when the sleep is over.
RateLimitSleep(rh) ==
    IF clock < 0
    THEN rh = NoReset /\ UNCHANGED <<clock, reset_time, sleep_time>>
    ELSE \E late \in 0..MaxLate :
           /\ reset_time' = ResetTime(rh)
           /\ sleep_time' = SleepTime(reset_time', clock)
           /\ clock' = clock + sleep_time' + late
           /\ clock' <= MaxClock

\* An answer whose body is not read.
Answered(status, h) == AnsweredWith(status, h, NoBody, NoLink)

\* (a variant whose retry starts again at the endpoint's first page)
RespondRateLimited_restarts(h) ==
    /\ Requesting
    /\ Remaining(h) = 0
    /\ audit => retries < MaxRetries
    /\ mr_pc' = "sleep"
    /\ url' = ""
    /\ retries' = IF audit THEN retries + 1 ELSE retries
    /\ \E rh \in ResetHeaders : RateLimitSleep(rh) /\ Answer(403, h, rh, NoBody, NoLink)
    /\ UNCHANGED <<pc, exit_status, exit_cause, all_results, last_page,
                   result, pages>>

\* (a variant that gives up instead of retrying)
RespondRateLimited_gives_up(h) ==
    /\ Requesting
    /\ Remaining(h) = 0
    /\ audit => retries < MaxRetries
    /\ retries' = IF audit THEN retries + 1 ELSE retries
    /\ Return(ListBody(all_results))
    /\ Answered(403, h)
    /\ UNCHANGED <<pc, exit_status, exit_cause, pages>>

\* 403 with no quota left, lines 52-62: sleep, then the request again.
RespondRateLimited(h) ==
    /\ Requesting
    /\ Remaining(h) = 0
    /\ audit => retries < MaxRetries
    /\ mr_pc' = "sleep"
    /\ retries' = IF audit THEN retries + 1 ELSE retries
    /\ \E rh \in ResetHeaders : RateLimitSleep(rh) /\ Answer(403, h, rh, NoBody, NoLink)
    /\ UNCHANGED <<pc, exit_status, exit_cause, url, all_results, last_page,
                   result, pages>>

\* (a variant that returns what the earlier pages gave)
RespondForbidden_partial(h) ==
    /\ Requesting
    /\ Remaining(h) # 0
    /\ Return(ListBody(all_results))
    /\ Answered(403, h)
    /\ UNCHANGED <<pc, exit_status, exit_cause, retries, pages>>

\* 403 with quota left, lines 63-68: return [].
RespondForbidden(h) ==
    /\ Requesting
    /\ Remaining(h) # 0
    /\ Return(ListBody(<<>>))
    /\ Answered(403, h)
    /\ UNCHANGED <<pc, exit_status, exit_cause, retries, pages>>

\* (a variant that returns what the earlier pages gave)
RespondNotFound_partial ==
    /\ Requesting
    /\ Return(ListBody(all_results))
    /\ Answered(404, "absent")
    /\ UNCHANGED <<pc, exit_status, exit_cause, retries, pages>>

\* (a variant that lets raise_for_status see the 404)
RespondNotFound_raises ==
    /\ Requesting
    /\ Abort("http")
    /\ Answered(404, "absent")
    /\ UNCHANGED <<retries, pages>>

\* 404, lines 69-71: return [].
RespondNotFound ==
    /\ Requesting
    /\ Return(ListBody(<<>>))
    /\ Answered(404, "absent")
    /\ UNCHANGED <<pc, exit_status, exit_cause, retries, pages>>

\* (a variant that swallows the error and returns [])
RespondFatalStatus_swallowed(status) ==
    /\ Requesting
    /\ Return(ListBody(<<>>))
    /\ Answered(status, "absent")
    /\ UNCHANGED <<pc, exit_status, exit_cause, retries, pages>>

\* Any other unsuccessful status, lines 72-73 and 92-94: raise_for_status
\* raises HTTPError, a RequestException; sys.exit(1).
RespondFatalStatus(status) ==
    /\ Requesting
    /\ Abort("http")
    /\ Answered(status, "absent")
    /\ UNCHANGED <<retries, pages>>

\* (a variant that swallows the error and issues the request again)
TransportError_retries ==
    /\ Requesting
    /\ mr_pc' = "get"
    /\ Answered(-1, "absent")
    /\ UNCHANGED <<pc, exit_status, exit_cause, url, all_results, last_page,
                   result, retries, pages, reset_time, sleep_time>>

\* requests.get raises (timeout, DNS, reset), lines 92-94: sys.exit(1).
\* The status -1 stands for "no answer".
TransportError ==
    /\ Requesting
    /\ Abort("transport")
    /\ Answered(-1, "absent")
    /\ UNCHANGED <<retries, pages>>

\* (a variant that goes on to aggregate and returns the list)
RespondDict_aggregates(d) ==
    /\ Requesting
    /\ Return(ListBody(all_results))
    /\ AnsweredWith(200, "absent", d, NoLink)
    /\ UNCHANGED <<pc, exit_status, exit_cause, retries, pages>>

\* 200 with an object, lines 74-75: return it.
RespondDict(d) ==
    /\ Requesting
    /\ Return(d)
    /\ AnsweredWith(200, "absent", d, NoLink)
    /\ UNCHANGED <<pc, exit_status, exit_cause, retries, pages>>

\* 200 with a list, lines 77-91 and 95-97: extend all_results, then follow
\* the Link header's "next" entry, or leave the loop and return all_results.
RespondList(items, h) ==
    /\ Requesting
    /\ audit => Len(pages) < MaxPages
    /\ Len(all_results) + Len(items) <= ItemBudget
    /\ pages' = IF audit THEN Append(pages, items) ELSE pages
    /\ AnsweredWith(200, "absent", ListBody(items), h)
    /\ UNCHANGED retries
    /\ LET extended == extend(all_results, items)
           parsed == ParseLink(h, last_page)
       IN  IF ~h.present
           THEN /\ Return(ListBody(extended))
                /\ UNCHANGED <<pc, exit_status, exit_cause>>
           ELSE IF parsed.raises
           THEN Abort("exception")
           ELSE IF parsed.url = "None"
           THEN /\ Return(ListBody(extended))
                /\ UNCHANGED <<pc, exit_status, exit_cause>>
           ELSE /\ mr_pc' = "get"
                /\ all_results' = extended
                /\ url' = parsed.url
                /\ last_page' = parsed.last_page
                /\ UNCHANGED <<pc, exit_status, exit_cause, result,
                               reset_time, sleep_time>>

Next ==
    \/ Import
    \/ MainWithOrgs
    \/ MainDiscover
    \/ GetOrgsReturn
    \/ NextOrg
    \/ GetOrgReposReturn
    \/ NextRepo
    \/ OrgDone
    \/ IsPausedReturn
    \/ Finish
    \/ \E h \in RemainingHeaders : RespondRateLimited(h)
    \/ \E h \in RemainingHeaders : RespondForbidden(h)
    \/ RespondNotFound
    \/ \E status \in FatalStatuses : RespondFatalStatus(status)
    \/ TransportError
    \/ \E d \in DictBodies : RespondDict(d)
    \/ \E items \in BSeq(ItemNames, ItemBudget), h \in LinkHeaders : RespondList(items, h)

Spec == Init /\ [][Next]_vars

\* The steps of the program itself, and the answers that are neither a 403
\* with zero quota nor a list page with a link to a next page.
Progress ==
    \/ Import
    \/ MainWithOrgs
    \/ MainDiscover
    \/ GetOrgsReturn
    \/ NextOrg
    \/ GetOrgReposReturn
    \/ NextRepo
    \/ OrgDone
    \/ IsPausedReturn
    \/ Finish
    \/ \E h \in RemainingHeaders : RespondForbidden(h)
    \/ RespondNotFound
    \/ \E status \in FatalStatuses : RespondFatalStatus(status)
    \/ TransportError
    \/ \E d \in DictBodies : RespondDict(d)
    \/ \E items \in BSeq(ItemNames, ItemBudget), h \in LinkHeaders :
          RespondList(items, h) /\ mr_pc' # "get"

\* The program keeps running while it can, every physical request ends (with
\* an answer or an error), and the server does not go on for ever answering
\* a query with zero-quota 403s and pages that link to a next page.
SpecLive == Spec /\ WF_vars(Progress)

\* ------------------------------------------ one query against a stub server
\* make_request has just been entered by one of its three callers; the
\* server is a stub that records the pages it serves and the rate-limit
\* answers it gives.
InitFetch ==
    /\ token = <<"ghp_", "x">>
    /\ audit = TRUE
    /\ pc \in {"get_orgs", "get_org_repos", "dependabot_is_paused"}
    /\ args_orgs = IF pc = "get_orgs" THEN <<>> ELSE <<"org-a">>
    /\ exit_status = -1
    /\ exit_cause = "none"
    /\ orgs = args_orgs
    /\ org_i = IF pc = "get_orgs" THEN 0 ELSE 1
    /\ repos = IF pc = "dependabot_is_paused" THEN <<"r1">> ELSE <<>>
    /\ repo_i = IF pc = "dependabot_is_paused" THEN 1 ELSE 0
    /\ paused_repos = EmptyMap
    /\ before_cleanup = EmptyMap
    /\ json_file = EmptyMap
    /\ writes = 0
    /\ json_chunks = -1
    /\ mr_pc = "get"
    /\ url = ""
    /\ all_results = <<>>
    /\ last_page = 0
    /\ result = ListBody(<<>>)
    /\ response = NoResponse
    /\ retries = 0
    /\ pages = <<>>
    /\ clock = -1
    /\ reset_time = 0
    /\ sleep_time = 0
    /\ issued = IF pc = "dependabot_is_paused" THEN {"/orgs/{org}/repos"} ELSE {}
    /\ statuses = <<>>
    /\ scanned = <<>>

NextFetch ==
    \/ \E h \in RemainingHeaders : RespondRateLimited(h)
    \/ \E h \in RemainingHeaders : RespondForbidden(h)
    \/ RespondNotFound
    \/ \E status \in FatalStatuses : RespondFatalStatus(status)
    \/ TransportError
    \/ \E d \in DictBodies : RespondDict(d)
    \/ \E items \in BSeq(ItemNames, ItemBudget), h \in LinkHeaders : RespondList(items, h)

SpecFetch == InitFetch /\ [][NextFetch]_vars

\* ------------------------------------ one query against a server with a clock
\* The same, against a server that keeps a clock and sends X-RateLimit-Reset
\* with its rate-limit answers, as often as it likes; it does not record the
\* pages it serves.
InitSleep ==
    /\ token = <<"ghp_", "x">>
    /\ audit = FALSE
    /\ pc \in {"get_orgs", "get_org_repos", "dependabot_is_paused"}
    /\ args_orgs = IF pc = "get_orgs" THEN <<>> ELSE <<"org-a">>
    /\ exit_status = -1
    /\ exit_cause = "none"
    /\ orgs = args_orgs
    /\ org_i = IF pc = "get_orgs" THEN 0 ELSE 1
    /\ repos = IF pc = "dependabot_is_paused" THEN <<"r1">> ELSE <<>>
    /\ repo_i = IF pc = "dependabot_is_paused" THEN 1 ELSE 0
    /\ paused_repos = EmptyMap
    /\ before_cleanup = EmptyMap
    /\ json_file = EmptyMap
    /\ writes = 0
    /\ json_chunks = -1
    /\ mr_pc = "get"
    /\ url = ""
    /\ all_results = <<>>
    /\ last_page = 0
    /\ result = ListBody(<<>>)
    /\ response = NoResponse
    /\ retries = 0
    /\ pages = <<>>
    /\ clock \in 0..MaxClock
    /\ reset_time = 0
    /\ sleep_time = 0
    /\ issued = IF pc = "dependabot_is_paused" THEN {"/orgs/{org}/repos"} ELSE {}
    /\ statuses = <<>>
    /\ scanned = <<>>

SpecSleep == InitSleep /\ [][NextFetch]_vars

\* ----------------------------------------------- a run the user interrupts
\* Exit statuses of a KeyboardInterrupt nothing catches: 1, or 130 where the
\* interpreter ends itself with SIGINT.
UncaughtInterruptStatuses == {1, 130}

\* Ctrl-C.  Inside main (lines 155-159) the KeyboardInterrupt unwinds
\* whatever runs, make_request and a with block included, and is caught:
\* sys.exit(1).  At module load nothing catches it.
Interrupt ==
    /\ Running
    /\ IF pc = "import"
       THEN \E st \in UncaughtInterruptStatuses : Exit(st, "interrupt_uncaught")
       ELSE Exit(1, "interrupt")
    /\ Returned
    /\ UNCHANGED <<inputs, clock, driver, issued>>

\* main, lines 150-151: cleanup_results; with an empty mapping main returns
\* and the process ends normally.
CleanupResults ==
    /\ Running /\ pc = "for_org"
    /\ org_i > Len(orgs)
    /\ before_cleanup' = paused_repos
    /\ paused_repos' = cleanup_results(paused_repos)
    /\ IF DOMAIN paused_repos' # {}
       THEN pc' = "write_to_json" /\ UNCHANGED <<exit_status, exit_cause>>
       ELSE Exit(0, "completed")
    /\ UNCHANGED <<inputs, clock, orgs, org_i, repos, repo_i, json_file,
                   json_chunks, writes, statuses, scanned, mr, issued>>

\* write_to_json, line 127: open(json_output, 'w') creates or truncates the
\* file.
OpenFile ==
    /\ Running /\ pc = "write_to_json"
    /\ json_chunks' = 0
    /\ json_file' = EmptyMap
    /\ pc' = "json_dump"
    /\ UNCHANGED <<inputs, clock, exit_status, exit_cause, orgs, org_i, repos,
                   repo_i, paused_repos, before_cleanup, writes, statuses,
                   scanned, mr, issued>>

\* write_to_json, line 128: json.dump writes the mapping piece by piece; one
\* step is one organization's entry.
DumpEntry ==
    /\ Running /\ pc = "json_dump"
    /\ json_chunks < Cardinality(DOMAIN paused_repos)
    /\ json_chunks' = json_chunks + 1
    /\ UNCHANGED <<inputs, clock, pc, exit_status, exit_cause, orgs, org_i,
                   repos, repo_i, paused_repos, before_cleanup, json_file,
                   writes, statuses, scanned, mr, issued>>

\* write_to_json, end of the with block: the file is closed and holds the
\* mapping.
CloseFile ==
    /\ Running /\ pc = "json_dump"
    /\ json_chunks = Cardinality(DOMAIN paused_repos)
    /\ json_file' = paused_repos
    /\ writes' = writes + 1
    /\ pc' = "written"
    /\ UNCHANGED <<inputs, clock, exit_status, exit_cause, orgs, org_i, repos,
                   repo_i, paused_repos, before_cleanup, json_chunks, statuses,
                   scanned, mr, issued>>

\* write_to_json, line 129, and the return to line 156: the process ends
\* normally.
Written ==
    /\ Running /\ pc = "written"
    /\ Exit(0, "completed")
    /\ UNCHANGED <<inputs, clock, driver, mr, issued>>

NextInterrupt ==
    \/ Import
    \/ MainWithOrgs
    \/ MainDiscover
    \/ GetOrgsReturn
    \/ NextOrg
    \/ GetOrgReposReturn
    \/ NextRepo
    \/ OrgDone
    \/ IsPausedReturn
    \/ CleanupResults
    \/ OpenFile
    \/ DumpEntry
    \/ CloseFile
    \/ Written
    \/ Interrupt
    \/ NextFetch

SpecInterrupt == Init /\ [][NextInterrupt]_vars

\* ------------------------------------------------------------------ claims
\* The concatenation of the pages pp, in order.
RECURSIVE Concat(_)
Concat(pp) == IF pp = <<>> THEN <<>> ELSE Head(pp) \o Concat(Tail(pp))

\* make_request has returned after a successful list answer.
ReturnedList == mr_pc = "return" /\ response.status = 200 /\ result.type = "list"

\* C1: when every physical request of a query was answered with a list page
\* (no rate limiting on the way), make_request returns exactly the
\* concatenation of the pages served, in the order served, whatever their
\* sizes.
C1_Concatenation ==
    (ReturnedList /\ retries = 0) => result = ListBody(Concat(pages))

\* Three pages of sizes 2, 0 and 1 were served and aggregated.
C1_Witness ==
    /\ ReturnedList /\ retries = 0
    /\ Len(pages) = 3
    /\ pages = <<<<"r2", "r1">>, <<>>, <<"r2">>>>
    /\ result.items = <<"r2", "r1", "r2">>

\* The last answer was 403 with X-RateLimit-Remaining: 0.
RateLimited(r) == r.status = 403 /\ r.remaining = "0"

\* C2: an answer of 403 with X-RateLimit-Remaining 0 leaves make_request
\* waiting to issue the same request again (same URL, nothing returned, the
\* process running), however many such answers came before; and a query that
\* met rate limiting and then was answered with list pages returns their
\* concatenation, as if it had never been rate limited.
C2_RetryThenData ==
    /\ [](RateLimited(response) => (mr_pc = "sleep" /\ exit_status = -1))
    /\ [][RateLimited(response') =>
            /\ mr_pc' = "sleep"
            /\ url' = url /\ all_results' = all_results
            /\ pc' = pc /\ exit_status' = -1]_vars
    /\ []((ReturnedList /\ retries > 0) => result = ListBody(Concat(pages)))

\* Two rate-limit answers, then the data.
C2_Witness ==
    /\ ReturnedList /\ retries = 2
    /\ pc = "get_org_repos"
    /\ result.items = <<"r1", "r2">>

\* The last answer was 403 with quota left.
Denied(r) == r.status = 403 /\ r.remaining = "1"

NoRepos == ListBody(<<>>)

\* C3 as claimed: after a 403 with quota left the query returns an empty
\* sequence and the process goes on without exiting, whichever of the three
\* queries it was.
C3_Original ==
    /\ [](Denied(response) => (mr_pc = "return" /\ result = NoRepos /\ exit_status = -1))
    /\ [][Denied(response) => exit_status' = -1]_vars

\* C3, amended: after a 403 with quota left the query returns an empty
\* sequence without ending the process.  For the repository listing the scan
\* goes on with an empty listing of that organization, for the pause status
\* it goes on to the next repository with the report unchanged; for the
\* organization listing the empty answer means no organization was found and
\* the process exits with status 1.
C3_DeniedIsLocal ==
    /\ [](Denied(response) => (mr_pc = "return" /\ result = NoRepos /\ exit_status = -1))
    /\ [][Denied(response) =>
            /\ pc = "get_org_repos" =>
                 /\ pc' = "for_repo" /\ repos' = <<>> /\ exit_status' = -1
                 /\ org_i' = org_i /\ paused_repos' = paused_repos
            /\ pc = "dependabot_is_paused" =>
                 /\ pc' = "for_repo" /\ repo_i' = repo_i + 1 /\ exit_status' = -1
                 /\ paused_repos' = paused_repos
            /\ pc = "get_orgs" =>
                 /\ pc' = "exit" /\ exit_status' = 1 /\ exit_cause' = "no_orgs"]_vars

\* The repository listing of the first of two organizations was denied.
C3_Witness ==
    /\ Denied(response) /\ pc = "get_org_repos"
    /\ Len(orgs) = 2 /\ org_i = 1

\* The value dependabot_is_paused must give for what make_request returned.
PausedField(r) ==
    IF r.type = "dict" /\ "paused" \in r.keys THEN r.paused ELSE FALSE

\* C4: a 404 makes make_request return an empty sequence without ending the
\* process; answered to the pause-status query, the repository is found not
\* paused, the report is left alone and the scan goes on to the next
\* repository.  Whatever make_request returns, the status found is the
\* "paused" field of a returned object that has one, and false otherwise.
C4_NotFoundIsNotPaused ==
    /\ [](response.status = 404 => (mr_pc = "return" /\ result = NoRepos /\ exit_status = -1))
    /\ [][(response.status = 404 /\ pc = "dependabot_is_paused") =>
            /\ statuses' = Append(statuses, FALSE)
            /\ paused_repos' = paused_repos
            /\ pc' = "for_repo" /\ repo_i' = repo_i + 1 /\ exit_status' = -1]_vars
    /\ [][(pc = "dependabot_is_paused" /\ mr_pc = "return") =>
            /\ statuses' = Append(statuses, PausedField(result))
            /\ result.type = "list" => statuses'[Len(statuses')] = FALSE
            /\ result = DictBody({"message"}, FALSE) => statuses'[Len(statuses')] = FALSE
            /\ result = DictBody({"paused"}, TRUE) => statuses'[Len(statuses')] = TRUE]_vars

\* The first repository was found not paused and the query about the second
\* was answered 404.
C4_Witness ==
    /\ pc = "dependabot_is_paused" /\ repo_i = 2 /\ statuses = <<FALSE>>
    /\ response.status = 404 /\ mr_pc = "return"
    /\ paused_repos = EmptyMap

\* The last physical request failed: a status raise_for_status raises for
\* (other than 403 and 404) or no answer at all.
Fatal(r) == r.status \in FatalStatuses \cup {-1}

\* C5: a transport error or an unsuccessful status other than 403 and 404
\* ends the process with exit status 1: make_request does not return, and
\* once the process has ended nothing more happens (no request, no retry).
C5_FatalExits ==
    /\ [](Fatal(response) => (pc = "exit" /\ exit_status = 1 /\ mr_pc # "return"
                                /\ exit_cause \in {"http", "transport"}))
    /\ [][exit_status = -1]_vars

\* A run that had scanned one organization ended on a 500.
C5_Witness ==
    /\ pc = "exit" /\ exit_status = 1 /\ response.status = 500
    /\ org_i = 2 /\ Len(scanned) = 1

\* ------------------------------------------------- cleanup_results alone
\* Every mapping from organizations to sequences of repositories.
Reports ==
    UNION {[D -> BSeq(RepoNames, MaxItems)] : D \in SUBSET OrgNames}

\* cleanup_results is about to be called with any mapping.
InitCleanup ==
    /\ token = <<"ghp_", "x">>
    /\ audit = FALSE
    /\ pc = "cleanup_results"
    /\ args_orgs = <<>>
    /\ exit_status = -1
    /\ exit_cause = "none"
    /\ orgs = <<>>
    /\ org_i = 0
    /\ repos = <<>>
    /\ repo_i = 0
    /\ paused_repos \in Reports
    /\ before_cleanup = EmptyMap
    /\ json_file = EmptyMap
    /\ writes = 0
    /\ json_chunks = -1
    /\ mr_pc = "idle"
    /\ url = "None"
    /\ all_results = <<>>
    /\ last_page = 0
    /\ result = ListBody(<<>>)
    /\ response = NoResponse
    /\ retries = 0
    /\ pages = <<>>
    /\ clock = -1
    /\ reset_time = 0
    /\ sleep_time = 0
    /\ issued = {}
    /\ statuses = <<>>
    /\ scanned = <<>>

\* paused_repos = cleanup_results(paused_repos)
CleanupOnce ==
    /\ pc = "cleanup_results"
    /\ before_cleanup' = paused_repos
    /\ paused_repos' = cleanup_results(paused_repos)
    /\ pc' = "cleaned"
    /\ UNCHANGED <<inputs, clock, exit_status, exit_cause, orgs, org_i, repos, repo_i,
                   json_file, json_chunks, writes, statuses, scanned, mr, issued>>

\* cleanup_results applied to its own result.
CleanupTwice ==
    /\ pc = "cleaned"
    /\ paused_repos' = cleanup_results(paused_repos)
    /\ pc' = "cleaned_twice"
    /\ UNCHANGED <<inputs, clock, exit_status, exit_cause, orgs, org_i, repos, repo_i,
                   before_cleanup, json_file, json_chunks, writes, statuses, scanned, mr,
                   issued>>

NextCleanup == CleanupOnce \/ CleanupTwice

SpecCleanup == InitCleanup /\ [][NextCleanup]_vars

\* The paused repositories of the scans of organization o that ran to their
\* end, in the order of the scans.
RECURSIVE ScannedFor(_, _)
ScannedFor(sc, o) ==
    IF sc = <<>> THEN <<>>
    ELSE (IF Head(sc).org = o THEN Head(sc).paused ELSE <<>>) \o ScannedFor(Tail(sc), o)

\* The scan of orgs[org_i] is between its listing and its end.
InProgress == pc \in {"for_repo", "dependabot_is_paused"}

\* What the report must hold for organization o: the repositories found
\* paused in its listing(s) so far, in listing order.
Expected(o) ==
    ScannedFor(scanned, o)
        \o (IF InProgress /\ orgs[org_i] = o THEN Filter(repos, statuses) ELSE <<>>)

Completed == pc = "exit" /\ exit_cause = "completed"

\* C6: throughout the scan and after it, the report maps each organization
\* to exactly the repositories of its listing that were found paused, in
\* listing order (a name given twice on the command line is listed twice),
\* and has no key for an organization without one; every repository of a
\* listing is checked before its organization is left; after a completed
\* scan every organization was scanned, in order, and the file, if written,
\* holds that report.
C6_ReportIsThePausedOnes ==
    /\ (exit_status = -1 \/ Completed) =>
          \A o \in OrgNames :
              IF Expected(o) = <<>>
              THEN o \notin DOMAIN paused_repos
              ELSE o \in DOMAIN paused_repos /\ paused_repos[o] = Expected(o)
    /\ InProgress => (Len(statuses) = repo_i - 1 /\ Len(statuses) <= Len(repos))
    /\ Completed =>
          /\ Len(scanned) = Len(orgs)
          /\ \A k \in 1..Len(orgs) : scanned[k].org = orgs[k]
          /\ writes = 1 => json_file = paused_repos

\* org-a with [r1, r2] and statuses [false, true], then org-b with one
\* repository that is not paused: the file holds {"org-a": ["r2"]}.
C6_Witness ==
    /\ Completed
    /\ orgs = <<"org-a", "org-b">>
    /\ scanned = <<[org |-> "org-a", paused |-> <<"r2">>],
                   [org |-> "org-b", paused |-> <<>>]>>
    /\ Len(repos) = 1
    /\ json_file = [o \in {"org-a"} |-> <<"r2">>]

\* C7: the output file is written at most once, only by a run that scanned
\* its last organization to the end, and only with a nonempty report: a
\* running process has not written it, a run that ended with status 1 never
\* wrote it, and a completed scan wrote it exactly when its report is
\* nonempty.
C7_WrittenOnceAtTheEnd ==
    /\ writes <= 1
    /\ writes = 1 =>
          /\ Completed /\ org_i > Len(orgs)
          /\ DOMAIN json_file # {} /\ json_file = paused_repos
    /\ exit_status = -1 => writes = 0
    /\ exit_status = 1 => writes = 0
    /\ Completed => (writes = 1 <=> DOMAIN paused_repos # {})

\* Two organizations were scanned and the file was written.
C7_Witness ==
    /\ Completed /\ writes = 1 /\ Len(orgs) = 2
    /\ DOMAIN json_file = {"org-b"}

NoEmptyKey(p) == \A o \in DOMAIN p : p[o] # <<>>

\* C8: the report never holds an organization mapped to an empty sequence:
\* not while the scan runs, not in what cleanup_results returns, not in what
\* is written to the file.
C8_NoEmptyEntry ==
    /\ NoEmptyKey(paused_repos)
    /\ NoEmptyKey(json_file)

\* An organization all of whose repositories were found not paused was
\* scanned to its end, after one with a paused repository.
C8_Witness ==
    /\ Completed
    /\ Len(scanned) = 2 /\ scanned[2].paused = <<>> /\ Len(repos) = 2
    /\ DOMAIN paused_repos = {scanned[1].org}
    /\ scanned[1].org # scanned[2].org

\* C9: cleanup_results removes exactly the keys whose sequence is empty and
\* leaves every other key with its sequence; applied to its own result it
\* changes nothing.
C9_CleanupRemovesEmpties ==
    pc \in {"cleaned", "cleaned_twice"} =>
        /\ DOMAIN paused_repos = {o \in DOMAIN before_cleanup : before_cleanup[o] # <<>>}
        /\ \A o \in DOMAIN paused_repos : paused_repos[o] = before_cleanup[o]

\* {"org-a": [], "org-b": ["r1"]} became {"org-b": ["r1"]}, twice over.
C9_Witness ==
    /\ pc = "cleaned_twice"
    /\ before_cleanup = [o \in {"org-a", "org-b"} |-> IF o = "org-a" THEN <<>> ELSE <<"r1">>]
    /\ paused_repos = [o \in {"org-b"} |-> <<"r1">>]

\* C10: a scan that runs to its end exits with status 0, with or without
\* paused repositories, and nothing else does.  Without organizations on the
\* command line they are the answer of the list-organizations query, and an
\* empty answer ends the process with status 1 before any other endpoint was
\* asked; with organizations on the command line those are scanned and the
\* list-organizations query is never issued.
C10_ExitStatusAndDiscovery ==
    /\ [](Completed => exit_status = 0)
    /\ [](exit_status = 0 => Completed)
    /\ [][(pc = "for_org" /\ org_i > Len(orgs)) =>
            (exit_status' = 0 /\ exit_cause' = "completed")]_vars
    /\ [][(pc = "main" /\ args_orgs = <<>>) => pc' = "get_orgs"]_vars
    /\ [][(pc = "get_orgs" /\ pc' = "for_org") =>
            (result.type = "list" /\ orgs' = result.items /\ orgs' # <<>>)]_vars
    /\ [][(pc = "get_orgs" /\ mr_pc = "return" /\ result.items = <<>> /\ result.keys = {}) =>
            (pc' = "exit" /\ exit_status' = 1 /\ exit_cause' = "no_orgs")]_vars
    /\ [](exit_cause = "no_orgs" => (exit_status = 1 /\ issued = {"/user/orgs"}))
    /\ []((args_orgs = <<>> /\ pc \in {"for_org", "get_org_repos", "for_repo",
                                       "dependabot_is_paused"})
            => "/user/orgs" \in issued)
    /\ [](args_orgs # <<>> =>
            /\ "/user/orgs" \notin issued
            /\ pc # "get_orgs"
            /\ pc \in {"for_org", "get_org_repos", "for_repo",
                       "dependabot_is_paused"} => orgs = args_orgs)

\* Two organizations were discovered and scanned; none had a paused
\* repository; the process ended with status 0 and wrote no file.
C10_Witness ==
    /\ Completed /\ exit_status = 0
    /\ args_orgs = <<>> /\ Len(orgs) = 2
    /\ "/user/orgs" \in issued
    /\ writes = 0

\* The credential is absent or begins with github_pat_.
BadToken == token = <<>> \/ (token # <<>> /\ Head(token) = "github_pat_")

\* C11: with the credential absent or beginning with github_pat_, the
\* process never gets past module load: its only step ends it with exit
\* status 1, and no request is ever issued (no endpoint asked, no answer
\* received, make_request never entered).
C11_BadTokenNoRequest ==
    /\ [](BadToken =>
            /\ issued = {} /\ response = NoResponse /\ mr_pc = "idle"
            /\ pc \in {"import", "exit"}
            /\ pc = "exit" => (exit_status = 1 /\ exit_cause = "token"))
    /\ [][(pc = "import" /\ BadToken) => (pc' = "exit" /\ exit_status' = 1)]_vars

\* A run with a fine-grained token and organizations on the command line
\* has ended.
C11_Witness ==
    /\ token = <<"github_pat_", "x">> /\ args_orgs # <<>>
    /\ pc = "exit" /\ exit_status = 1 /\ exit_cause = "token"
    /\ issued = {}

\* The last answer was successful and its body a single object.
DictAnswer(r) == r.status = 200 /\ r.body.type = "dict"

\* C12: a successful answer whose body is a single object makes
\* make_request return exactly that object, with the process running,
\* whatever pages were aggregated before; no request of the query follows.
C12_ObjectReturnedAtOnce ==
    /\ [](DictAnswer(response) =>
            (mr_pc = "return" /\ result = response.body /\ exit_status = -1))
    /\ [][DictAnswer(response') =>
            (mr_pc' = "return" /\ result' = response'.body
               /\ result'.type = "dict" /\ result'.items = <<>>)]_vars
    /\ [][~DictAnswer(response)]_vars

\* Two nonempty pages were served, then an object.
C12_Witness ==
    /\ pages = <<<<"r1">>, <<"r2">>>> /\ retries = 0
    /\ DictAnswer(response)
    /\ mr_pc = "return" /\ result = DictBody({"paused"}, TRUE)

\* The last answer was successful and its body a list page.
ListAnswer(r) == r.status = 200 /\ r.body.type = "list"

\* The URLs the Link header h marks rel="next".
NextUrls(h) == {h.links[i].url : i \in {j \in 1..Len(h.links) : h.links[j].rel = "next"}}

\* C13 as claimed: after every successful list page the query goes on to a
\* URL the Link header marks "next", the page's items aggregated; with no
\* Link header, or none marked "next", it returns what it has aggregated,
\* the process running.
C13_Original ==
    [][ListAnswer(response') =>
          IF NextUrls(response'.link) = {}
          THEN /\ mr_pc' = "return" /\ exit_status' = -1
               /\ result' = ListBody(all_results \o response'.body.items)
          ELSE /\ mr_pc' = "get" /\ exit_status' = -1
               /\ url' \in NextUrls(response'.link)
               /\ all_results' = all_results \o response'.body.items]_vars

\* C13, what the code does: the same, except where printing the progress
\* (lines 85 and 90-91) raises, which ends the process with status 1 before
\* any further request and without returning.
C13_FollowsNextUnlessDisplayRaises ==
    [][ListAnswer(response') =>
          IF ParseLink(response'.link, last_page).raises
          THEN /\ exit_status' = 1 /\ exit_cause' = "exception"
               /\ mr_pc' = "idle"
          ELSE IF NextUrls(response'.link) = {}
          THEN /\ mr_pc' = "return" /\ exit_status' = -1
               /\ result' = ListBody(all_results \o response'.body.items)
          ELSE /\ mr_pc' = "get" /\ exit_status' = -1
               /\ url' \in NextUrls(response'.link)
               /\ all_results' = all_results \o response'.body.items]_vars

\* The second page is about to be requested at the URL marked "next".
C13_Witness ==
    /\ mr_pc = "get" /\ url = "?page=2" /\ Len(pages) = 1
    /\ ListAnswer(response) /\ NextUrls(response.link) = {"?page=2"}
    /\ all_results = <<"r1", "r2">>

\* make_request is between two physical requests of its query.
MidQuery == mr_pc \in {"get", "sleep"}

\* C15: the step that meets rate limiting changes neither the URL nor the
\* aggregated items nor the pages served, and the request after the sleep is
\* handled like any other: a list page served then is appended once.  So
\* between requests the aggregate is always the concatenation of the pages
\* served so far, each once and in order, and the URL is the endpoint's own
\* exactly while no page was served, whether or not the query has slept.
C15_RetryKeepsCursor ==
    /\ [][mr_pc' = "sleep" =>
            /\ url' = url /\ all_results' = all_results
            /\ last_page' = last_page /\ pages' = pages]_vars
    /\ [][(mr_pc = "sleep" /\ ListAnswer(response')) =>
            /\ pages' = Append(pages, response'.body.items)
            /\ mr_pc' = "get" => all_results' = all_results \o response'.body.items]_vars
    /\ [](MidQuery => (all_results = Concat(pages) /\ (url = "" <=> pages = <<>>)))

\* After a first page of two items the request for the second page was
\* rate limited twice.
C15_Witness ==
    /\ mr_pc = "sleep" /\ retries = 2
    /\ url = "?page=2" /\ pages = <<<<"r1", "r2">>>>
    /\ all_results = <<"r1", "r2">>

\* The last answer was a 404 or a 403 with quota left.
Refused(r) == r.status = 404 \/ Denied(r)

\* C19: a 404 or a 403 with quota left makes make_request return the empty
\* sequence whatever it had aggregated; and the value make_request returns
\* is always the concatenation of every page served, or the empty sequence,
\* or the object last answered: never a part of the pages.
C19_AllOrNothing ==
    /\ [](Refused(response) => (mr_pc = "return" /\ result = ListBody(<<>>)))
    /\ [](mr_pc = "return" =>
            \/ result = ListBody(Concat(pages))
            \/ result = ListBody(<<>>)
            \/ (result.type = "dict" /\ result = response.body))

\* Two nonempty pages were aggregated, then the third request was denied.
C19_Witness ==
    /\ Denied(response) /\ mr_pc = "return" /\ result = ListBody(<<>>)
    /\ pages = <<<<"org-a">>, <<"org-b", "org-a">>>>

\* The entries of the Link header h marked rel.
Marked(h, rel) == SelectSeq(h.links, LAMBDA e : e.rel = rel)

\* C17 as claimed: what follows a successful list page depends on the
\* entries marked "next" alone.  With one, the query goes on to its URL;
\* with none, it returns the aggregate; the process keeps running, with or
\* without an entry marked "last", with or without page numbers in the URLs.
C17_Original ==
    [][ListAnswer(response') =>
          LET nexts == Marked(response'.link, "next")
              aggregate == all_results \o response'.body.items
          IN  /\ exit_status' = -1
              /\ nexts # <<>> =>
                   (mr_pc' = "get" /\ url' = nexts[Len(nexts)].url
                      /\ all_results' = aggregate)
              /\ nexts = <<>> =>
                   (mr_pc' = "return" /\ result' = ListBody(aggregate))]_vars

\* C17, what the code does: the process ends with status 1 on a list page
\* whose Link header has an entry marked "last" with a URL without a page
\* number, or an entry marked "next" with such a URL, or an entry marked
\* "next" while no entry marked "last" was seen in this query; on every
\* other list page it goes on as claimed.
C17_DisplayDecides ==
    [][ListAnswer(response') =>
          LET nexts == Marked(response'.link, "next")
              lasts == Marked(response'.link, "last")
              NoPage(es) == \E i \in 1..Len(es) : PageOf(es[i].url) = 0
              crash == \/ NoPage(lasts)
                       \/ nexts # <<>> /\ (NoPage(nexts) \/ (lasts = <<>> /\ last_page = 0))
          IN  crash <=> (exit_status' = 1 /\ exit_cause' = "exception")]_vars

\* A first page was served with a "next" entry and no "last" entry: the
\* process has ended.
C17_Witness ==
    /\ ListAnswer(response) /\ Len(pages) = 1
    /\ response.link = Link(<<[rel |-> "next", url |-> "?page=2"]>>)
    /\ pc = "exit" /\ exit_status = 1 /\ exit_cause = "exception"

\* The last answer was 403 with no quota left, by header or by default.
ZeroQuota(r) == r.status = 403 /\ r.remaining \in {"0", "absent"}

\* The reset timestamp an answer carries, 0 when it carries none.
ResetOf(r) == IF r.reset.present THEN r.reset.value ELSE 0

\* C16: on a rate-limit answer received at time `clock`, the sleep lasts
\* reset - clock when the reset timestamp lies in the future and 0
\* otherwise; it is never negative, and the retry is issued when the sleep
\* is over: no earlier than the reset timestamp, and no earlier than the
\* answer.
C16_SleepUntilReset ==
    [][ZeroQuota(response') =>
          LET reset == ResetOf(response')
          IN  /\ mr_pc' = "sleep"
              /\ reset_time' = reset
              /\ sleep_time' = (IF reset > clock THEN reset - clock ELSE 0)
              /\ sleep_time' >= 0
              /\ reset <= clock => sleep_time' = 0
              /\ clock' >= clock + sleep_time'
              /\ clock' >= reset]_vars

\* The answer at time 1 named the reset time 3: the query slept 2 and woke
\* at 4.  An earlier answer had come after its reset time.
C16_Witness ==
    /\ mr_pc = "sleep" /\ ZeroQuota(response)
    /\ ResetOf(response) = 3 /\ sleep_time = 2 /\ clock = 4
    /\ url = "?page=2"

\* The last answer was a 403 without X-RateLimit-Remaining.
BareForbidden(r) == r.status = 403 /\ r.remaining = "absent"

\* The server answers once more with a 403 that carries neither header.
BareForbiddenAgain ==
    /\ RespondRateLimited("absent")
    /\ ~response'.reset.present

\* C20: a 403 without X-RateLimit-Remaining leaves make_request sleeping
\* before the same request, nothing returned and the process running, like
\* one with zero quota; without X-RateLimit-Reset as well the sleep is 0 and
\* the retry is due at once; and after such an answer nothing keeps the
\* server from giving it again, which leaves the query where it was.  So a
\* server that keeps answering so keeps the query retrying, however long.
C20_BareForbiddenRetriesForever ==
    /\ [](BareForbidden(response) =>
            (mr_pc = "sleep" /\ exit_status = -1 /\ result = ListBody(<<>>)))
    /\ [][BareForbidden(response') =>
            (mr_pc' = "sleep" /\ url' = url /\ all_results' = all_results
               /\ pc' = pc /\ exit_status' = -1)]_vars
    /\ [][(BareForbidden(response') /\ ~response'.reset.present) =>
            (reset_time' = 0 /\ sleep_time' = 0 /\ clock' <= clock + MaxLate)]_vars
    /\ []((BareForbidden(response) /\ ~response.reset.present) =>
            ENABLED (BareForbiddenAgain /\ clock' = clock /\ mr_pc' = mr_pc
                       /\ response' = response /\ url' = url))

\* The request for the second page was answered at time 2 with a 403 that
\* carries neither header.
C20_Witness ==
    /\ BareForbidden(response) /\ ~response.reset.present
    /\ mr_pc = "sleep" /\ sleep_time = 0 /\ clock = 2
    /\ url = "?page=2" /\ all_results # <<>>

\* The output file was opened for writing and write_to_json did not get to
\* its end: the file holds nothing, or a part of the report.
PartialFile == json_chunks >= 0 /\ writes = 0

\* C14 as claimed: a run ended by an interrupt inside main has exit status 1
\* and leaves no partially written output file.
C14_Original ==
    (pc = "exit" /\ exit_cause = "interrupt") => (exit_status = 1 /\ ~PartialFile)

\* C14, what the code does: an interrupt inside main ends the process with
\* exit status 1, wherever it arrives.  It leaves the output file untouched
\* when it arrives during the scan (in a request, in the rate-limit sleep,
\* between repositories) and complete when it arrives after the file was
\* closed; arriving between open() and the end of json.dump it leaves the
\* file truncated or holding a part of the report.  Nothing else leaves such
\* a file.
C14_InterruptEndsWithOne ==
    /\ [](exit_cause = "interrupt" => (pc = "exit" /\ exit_status = 1))
    /\ [][(exit_cause' = "interrupt" /\ exit_cause = "none") =>
            /\ PartialFile' <=> pc = "json_dump"
            /\ pc \in {"main", "get_orgs", "for_org", "get_org_repos", "for_repo",
                       "dependabot_is_paused", "write_to_json"} =>
                 (json_chunks' = -1 /\ writes' = 0)
            /\ pc = "written" => (writes' = 1 /\ json_file' = paused_repos)
            /\ UNCHANGED <<json_file, json_chunks, writes, paused_repos>>]_vars
    /\ []((pc = "exit" /\ PartialFile) => exit_cause = "interrupt")

\* The interrupt came when json.dump had written one of the report's two
\* entries.
C14_Witness ==
    /\ pc = "exit" /\ exit_cause = "interrupt" /\ exit_status = 1
    /\ json_chunks = 1 /\ Cardinality(DOMAIN paused_repos) = 2
    /\ writes = 0

\* C18: under those assumptions every query that is waiting for an answer
\* comes to return or to the end of the process, and every run comes to its
\* end: the completed scan or an exit with status 1.
C18_Terminates ==
    /\ Requesting ~> (mr_pc = "return" \/ pc = "exit")
    /\ <>(pc = "exit" /\ (Completed \/ exit_status = 1))

\* A run that discovered two organizations, the second with two
\* repositories, came to its end and wrote its report.
C18_Witness ==
    /\ Completed /\ args_orgs = <<>> /\ Len(scanned) = 2
    /\ Len(repos) = 2 /\ writes = 1
    /\ "/repos/{org}/{repo}/automated-security-fixes" \in issued

====
